---------------------------- MODULE Spec2Model ----------------------------
(***************************************************************************)
(* Live collaboration core of the Monaco code editor component            *)
(* (src/unnamed/part_003): the offset mapper, the translation of editor    *)
(* change events into OT operations (sendChangeOperations), the           *)
(* application of remote operations (applyOperation) and the receiving     *)
(* flag that gates the two.                                                *)
(*                                                                         *)
(* A text is a sequence of characters; the characters are the letters of   *)
(* Letter and the two line-break characters CR and LF.                     *)
(***************************************************************************)
EXTENDS Integers, Sequences, FiniteSets, TLC

\* ------------------------------------------------------------------ bounds
MaxLines == 2
MaxDocSize == 3
MaxOpSteps == 3
MaxFrameEdits == 2
MaxSwaps == 1
MaxPending == 2
MaxEvents == 3
MaxUpdates == 2
MaxMapperLines == 3
MaxLineLength == 2
MaxBeyond == 2

\* -------------------------------------------------------------- characters
CR == "CR"
LF == "LF"
Letter == {"a", "b"}
EolLF == <<LF>>
EolCRLF == <<CR, LF>>
Eols == {EolLF, EolCRLF}

Min(a, b) == IF a < b THEN a ELSE b
Max(a, b) == IF a > b THEN a ELSE b

\* s.slice(from, to) with 0-based, end-exclusive indexes inside the string
Slice(s, from, to) == SubSeq(s, from + 1, to)

RECURSIVE SumLen(_)
SumLen(ss) == IF ss = <<>> THEN 0 ELSE Len(Head(ss)) + SumLen(Tail(ss))

\* ------------------------------------------------------ String.prototype.split
StripCR(line) ==
  IF Len(line) > 0 /\ line[Len(line)] = CR
    THEN SubSeq(line, 1, Len(line) - 1)
    ELSE line

RECURSIVE SplitFrom(_, _, _)
SplitFrom(s, i, cur) ==
  IF i > Len(s) THEN <<cur>>
  ELSE IF s[i] = LF THEN <<StripCR(cur)>> \o SplitFrom(s, i + 1, <<>>)
  ELSE SplitFrom(s, i + 1, Append(cur, s[i]))

\* code.split(/\r?\n/)
SplitLines(s) == SplitFrom(s, 1, <<>>)

RECURSIVE JoinLines(_, _)
JoinLines(lines, eol) ==
  IF Len(lines) = 0 THEN <<>>
  ELSE IF Len(lines) = 1 THEN lines[1]
  ELSE lines[1] \o eol \o JoinLines(Tail(lines), eol)

\* ------------------------------------------------------------ offset mapper
\* indexToLineAndColumn(lines, index): the walk over the lines from line i on,
\* offset being the characters counted so far
RECURSIVE IndexWalk(_, _, _, _)

\* A result past the last line
PastTheEnd(lines) == [lineNumber |-> Len(lines) + 1, column |-> 1]

\* What is returned after the loop: lines.length and the length of
\* (lines[lines.length - 1] || '') plus 1
ClampToEnd(lines) ==
  [lineNumber |-> Len(lines),
   column |-> (IF Len(lines) = 0 THEN 0 ELSE Len(lines[Len(lines)])) + 1]

\* A walk that takes the offset after a line's break for that line's
IndexWalkInclusive(lines, index, i, offset) ==
  IF i > Len(lines) THEN ClampToEnd(lines)
  ELSE IF offset + Len(lines[i]) + 1 >= index
    THEN [lineNumber |-> i, column |-> index - offset + 1]
  ELSE IndexWalk(lines, index, i + 1, offset + Len(lines[i]) + 1)

IndexWalk(lines, index, i, offset) ==
  IF i > Len(lines) THEN ClampToEnd(lines)
  ELSE IF offset + Len(lines[i]) + 1 > index
    THEN [lineNumber |-> i, column |-> index - offset + 1]
  ELSE IndexWalk(lines, index, i + 1, offset + Len(lines[i]) + 1)

indexToLineAndColumn(lines, index) == IndexWalk(lines, index, 1, 0)

\* lineAndColumnToIndex(lines, lineNumber, column): the while loop; reading
\* lines[currentLine].length past the last line is a TypeError (ok = FALSE)
RECURSIVE LineWalk(_, _, _, _)
LineWalk(lines, lineNumber, currentLine, index) ==
  IF currentLine + 1 < lineNumber
    THEN IF currentLine + 1 > Len(lines)
           THEN [ok |-> FALSE, index |-> 0]
           ELSE LineWalk(lines, lineNumber, currentLine + 1,
                         index + Len(lines[currentLine + 1]) + 1)
    ELSE [ok |-> TRUE, index |-> index]

lineAndColumnToIndex(lines, lineNumber, column) ==
  LET w == LineWalk(lines, lineNumber, 0, 0)
  IN  [ok |-> w.ok, index |-> w.index + column - 1]

\* ------------------------------------------------- TextOperation (ot library)
\* A step is a record: k = "r" (retain, n > 0), "d" (delete, n < 0: the library
\* stores a deletion as a negative number) or "i" (insert, s the text).
RetainStep(n) == [k |-> "r", n |-> n, s |-> <<>>]
DeleteStep(n) == [k |-> "d", n |-> n, s |-> <<>>]
InsertStep(str) == [k |-> "i", n |-> 0, s |-> str]

isRetain(step) == step.k = "r" /\ step.n > 0
isInsert(step) == step.k = "i"
isDelete(step) == step.k = "d" /\ step.n < 0

EmptyOperation == [ops |-> <<>>, baseLength |-> 0, targetLength |-> 0]

LastIsRetain(ops) == Len(ops) > 0 /\ isRetain(ops[Len(ops)])
LastIsInsert(ops) == Len(ops) > 0 /\ isInsert(ops[Len(ops)])
LastIsDelete(ops) == Len(ops) > 0 /\ isDelete(ops[Len(ops)])

OpRetain(o, n) ==
  IF n = 0 THEN o
  ELSE [ops |-> IF LastIsRetain(o.ops)
                  THEN [o.ops EXCEPT ![Len(o.ops)] = RetainStep(@.n + n)]
                  ELSE Append(o.ops, RetainStep(n)),
        baseLength |-> o.baseLength + n,
        targetLength |-> o.targetLength + n]

OpInsert(o, str) ==
  IF str = <<>> THEN o
  ELSE LET ops == o.ops
           n == Len(ops)
       IN [ops |-> IF LastIsInsert(ops)
                     THEN [ops EXCEPT ![n] = InsertStep(@.s \o str)]
                   ELSE IF LastIsDelete(ops)
                     THEN IF n > 1 /\ isInsert(ops[n - 1])
                            THEN [ops EXCEPT ![n - 1] = InsertStep(@.s \o str)]
                            ELSE SubSeq(ops, 1, n - 1) \o <<InsertStep(str), ops[n]>>
                   ELSE Append(ops, InsertStep(str)),
           baseLength |-> o.baseLength,
           targetLength |-> o.targetLength + Len(str)]

OpDelete(o, count) ==
  IF count = 0 THEN o
  ELSE LET n == IF count > 0 THEN -count ELSE count
       IN [ops |-> IF LastIsDelete(o.ops)
                     THEN [o.ops EXCEPT ![Len(o.ops)] = DeleteStep(@.n + n)]
                     ELSE Append(o.ops, DeleteStep(n)),
           baseLength |-> o.baseLength - n,
           targetLength |-> o.targetLength]

\* apply: the walk over the steps from step i on, strIndex the characters of
\* str consumed so far; ok = FALSE is a thrown Error
RECURSIVE ApplyWalk(_, _, _, _, _)
ApplyWalk(ops, str, i, strIndex, out) ==
  IF i > Len(ops)
    THEN [ok |-> strIndex = Len(str), str |-> out]
  ELSE IF isRetain(ops[i])
    THEN IF strIndex + ops[i].n > Len(str)
           THEN [ok |-> FALSE, str |-> out]
           ELSE ApplyWalk(ops, str, i + 1, strIndex + ops[i].n,
                          out \o Slice(str, strIndex, strIndex + ops[i].n))
  ELSE IF isInsert(ops[i])
    THEN ApplyWalk(ops, str, i + 1, strIndex, out \o ops[i].s)
  ELSE ApplyWalk(ops, str, i + 1, strIndex - ops[i].n, out)

\* apply without the comparison of the string's length with baseLength
ApplyUnchecked(o, str) ==
  [ok |-> TRUE, str |-> ApplyWalk(o.ops, str, 1, 0, <<>>).str]

OpApply(o, str) ==
  IF Len(str) # o.baseLength
    THEN [ok |-> FALSE, str |-> str]
    ELSE LET w == ApplyWalk(o.ops, str, 1, 0, <<>>)
         IN  IF w.ok THEN w ELSE [ok |-> FALSE, str |-> str]

\* ------------------------------------------------------- the editor's model
\* A Monaco text model: its lines (without line breaks) and its one line-break
\* sequence. getValue() joins the lines with it, getLinesContent() is the lines.
getValue(m) == JoinLines(m.lines, m.eol)
getLinesContent(m) == m.lines
ModelOf(text, eol) == [lines |-> SplitLines(text), eol |-> eol]

\* Monaco writes every line break of an inserted text as the model's own
RECURSIVE NormalizeFrom(_, _, _)
NormalizeFrom(text, i, eol) ==
  IF i > Len(text) THEN <<>>
  ELSE IF text[i] = CR /\ i < Len(text) /\ text[i + 1] = LF
    THEN eol \o NormalizeFrom(text, i + 2, eol)
  ELSE IF text[i] = CR \/ text[i] = LF
    THEN eol \o NormalizeFrom(text, i + 1, eol)
  ELSE <<text[i]>> \o NormalizeFrom(text, i + 1, eol)

NormalizeEOL(text, eol) == NormalizeFrom(text, 1, eol)

\* validatePosition: a position outside the text is moved to the nearest one in it
ValidatePosition(m, line, col) ==
  LET n == Len(m.lines)
  IN  IF line < 1 THEN [lineNumber |-> 1, column |-> 1]
      ELSE IF line > n THEN [lineNumber |-> n, column |-> Len(m.lines[n]) + 1]
      ELSE [lineNumber |-> line, column |-> Max(1, Min(col, Len(m.lines[line]) + 1))]

\* getOffsetAt: the position's offset in getValue()
RECURSIVE OffsetOfLine(_, _)
OffsetOfLine(m, line) ==
  IF line <= 1 THEN 0
  ELSE OffsetOfLine(m, line - 1) + Len(m.lines[line - 1]) + Len(m.eol)

getOffsetAt(m, pos) == OffsetOfLine(m, pos.lineNumber) + pos.column - 1

\* new monaco.Range(a, b, c, d): the start is the earlier of the two positions
Range(sl, sc, el, ec) ==
  IF sl > el \/ (sl = el /\ sc > ec)
    THEN [startLineNumber |-> el, startColumn |-> ec, endLineNumber |-> sl, endColumn |-> sc]
    ELSE [startLineNumber |-> sl, startColumn |-> sc, endLineNumber |-> el, endColumn |-> ec]

\* One edit {range, text} applied to the model: the new model and the change
\* the editor reports for it in onDidChangeModelContent
ReplaceBetween(m, from, to, o1, o2, v, t) ==
  [model |-> ModelOf(Slice(v, 0, o1) \o t \o Slice(v, o2, Len(v)), m.eol),
   change |-> [range |-> [startLineNumber |-> from.lineNumber,
                          startColumn |-> from.column,
                          endLineNumber |-> to.lineNumber,
                          endColumn |-> to.column],
               rangeLength |-> o2 - o1,
               text |-> t]]

ApplyValidEdit(m, from, to, text) ==
  ReplaceBetween(m, from, to, getOffsetAt(m, from), getOffsetAt(m, to), getValue(m),
                 NormalizeEOL(text, m.eol))

ApplyEdit(m, range, text) ==
  ApplyValidEdit(m, ValidatePosition(m, range.startLineNumber, range.startColumn),
                 ValidatePosition(m, range.endLineNumber, range.endColumn), text)

\* ------------------------------------------------------------ editor state
Modules == {"m1", "m2"}

VARIABLES
  models,             \* modelCache[id].model: the text model of every module
  shown,              \* the module whose model the editor shows (editor.getModel())
  currentModule,      \* this.currentModule
  code,               \* module.code of every module, as the store holds it
  liveOperationCode,  \* this.liveOperationCode
  receivingCode,      \* this.receivingCode
  props,              \* this.props: isLive, sendTransforms and onCodeReceived given or not
  rafQueue,           \* callbacks handed to requestAnimationFrame, not yet run
  swaps,              \* swapDocuments calls whose promise has not resolved yet
  frameEdits,         \* content-change events of local edits since the last animation frame
  frameSends,         \* sendTransforms calls since the last animation frame
  mapper,             \* the last call of the offset mapper: its lines, arguments, result
  frameText,          \* the operations sent in this frame applied in order to the text
                      \* the editor showed before the frame's first edit
  status,             \* the store's receiving status (setReceivingStatus, unSetReceivingStatus)
  ran,                \* the steps of the sequence that ran last, with the status after each
  events,             \* handlers run so far
  last,               \* what the handler that ran last did
  decorations,        \* the decorations of every model
  userSelectionDecorations, \* this.userSelectionDecorations: decoration ids by shortid + userId
  decorationIds,      \* decoration ids the editor has given out so far
  pendingSelection,   \* the argument the debounced onSelectionChangedDebounced waits with
  delivered,          \* the payloads passed to props.onSelectionChanged so far
  gone,               \* <<model, user>>: the user's latest selection was null, received with that model shown
  lastSelection       \* the payload of the latest selection event of a live editor

vars == <<mapper, frameText, status, ran, models, shown, currentModule, code, liveOperationCode, receivingCode,
          props, rafQueue, swaps, frameEdits, frameSends, events, last,
          decorations, userSelectionDecorations, decorationIds, pendingSelection,
          delivered, gone, lastSelection>>

\* The fields a handler reads and writes, as one record; out collects the
\* operations the handler passes to sendTransforms, received counts its
\* onCodeReceived calls, threw says that an Error left the listener, base is
\* the snapshot sendChangeOperations built its operation against and built the
\* operation as it stood when otOperation.apply was called, mutations
\* counts the content-change events, unguarded those of them that found
\* receivingCode false, handled the runs of handleChange.
Editor ==
  [models |-> models, shown |-> shown, currentModule |-> currentModule,
   code |-> code, liveOperationCode |-> liveOperationCode,
   receivingCode |-> receivingCode, props |-> props, rafQueue |-> rafQueue,
   status |-> status, ran |-> ran,
   decorations |-> decorations, userSelectionDecorations |-> userSelectionDecorations,
   decorationIds |-> decorationIds, pendingSelection |-> pendingSelection,
   delivered |-> delivered, gone |-> gone, lastSelection |-> lastSelection,
   out |-> <<>>, received |-> 0, threw |-> FALSE, base |-> <<>>, built |-> <<>>,
   mutations |-> 0, unguarded |-> 0, handled |-> 0]

\* oldCode.replace(/\r\n/g, '\n')
RECURSIVE ReplaceCRLF(_)
ReplaceCRLF(s) ==
  IF Len(s) = 0 THEN <<>>
  ELSE IF Len(s) > 1 /\ s[1] = CR /\ s[2] = LF THEN <<LF>> \o ReplaceCRLF(SubSeq(s, 3, Len(s)))
  ELSE <<s[1]>> \o ReplaceCRLF(Tail(s))

\* props.onChange(newCode): the store writes the code into the current module
onChange(S, newCode) == [S EXCEPT !.code[S.currentModule] = newCode]

handleChange(S) ==
  LET newCode == getValue(S.models[S.shown])
      oldCode == S.code[S.currentModule]
      S1 == [S EXCEPT !.handled = @ + 1]
  IN  IF ReplaceCRLF(oldCode) = ReplaceCRLF(newCode) THEN S1 ELSE onChange(S1, newCode)

\* ------------------------------------------------------ sendChangeOperations
\* The changes in the order the loop takes them: [...changeEvent.changes].reverse()
RECURSIVE Reverse(_)
Reverse(s) == IF s = <<>> THEN <<>> ELSE Append(Reverse(Tail(s)), Head(s))

LoopOrder(changes) == Reverse(changes)

\* if (retain > 0) otOperation.retain(retain)
RetainIfPositive(op, retain) == IF retain > 0 THEN OpRetain(op, retain) ELSE op

\* if (change.rangeLength > 0) otOperation.delete(change.rangeLength)
DeleteIfPositive(op, rangeLength) == IF rangeLength > 0 THEN OpDelete(op, rangeLength) ELSE op

\* if (change.text) otOperation.insert(change.text)
InsertIfText(op, text) == IF text # <<>> THEN OpInsert(op, text) ELSE op

\* One turn of the loop, the change starting at index at.index of the
\* snapshot: acc = [op, delta, ok]
TranslateAt(acc, change, at) ==
  LET cursorStartOffset == at.index + acc.delta
      retain == cursorStartOffset - acc.op.targetLength
      d2 == IF change.rangeLength > 0 THEN acc.delta - change.rangeLength ELSE acc.delta
      d3 == IF change.text # <<>> THEN d2 + Len(change.text) ELSE d2
  IN  IF ~acc.ok \/ ~at.ok
        THEN [op |-> acc.op, delta |-> acc.delta, ok |-> FALSE]
        ELSE [op |-> InsertIfText(DeleteIfPositive(RetainIfPositive(acc.op, retain),
                                                   change.rangeLength),
                                  change.text),
              delta |-> d3, ok |-> TRUE]

TranslateChange(snapshot, acc, change) ==
  TranslateAt(acc, change,
              lineAndColumnToIndex(SplitLines(snapshot),
                                   change.range.startLineNumber,
                                   change.range.startColumn))

RECURSIVE TranslateLoop(_, _, _)
TranslateLoop(snapshot, acc, changes) ==
  IF changes = <<>> THEN acc
  ELSE TranslateLoop(snapshot, TranslateChange(snapshot, acc, Head(changes)), Tail(changes))

\* The operation as it stands before otOperation.apply: the loop, then the
\* retain of what is left of the snapshot
RetainRemaining(snapshot, acc) ==
  LET remaining == Len(snapshot) - acc.op.baseLength
  IN  [ok |-> acc.ok,
       op |-> IF acc.ok /\ remaining > 0 THEN OpRetain(acc.op, remaining) ELSE acc.op]

BuildOperation(snapshot, changes) ==
  RetainRemaining(snapshot,
                  TranslateLoop(snapshot, [op |-> EmptyOperation, delta |-> 0, ok |-> TRUE],
                                LoopOrder(changes)))

ClearLive == [task |-> "clearLiveOperationCode"]

\* A failed apply that drops the snapshot
DropAfterFailedApply(snapshot) == <<>>

\* What a failed otOperation.apply leaves in liveOperationCode
AfterFailedApply(snapshot) == snapshot

\* this.liveOperationCode || this.currentModule.code || ''
Snapshot(S) ==
  IF S.liveOperationCode # <<>> THEN S.liveOperationCode ELSE S.code[S.currentModule]

\* sendTransforms called before otOperation.apply
SendBeforeApply(S, snapshot, built, applied) ==
  IF ~built.ok
    THEN [S EXCEPT !.liveOperationCode = snapshot, !.base = snapshot, !.threw = TRUE]
    ELSE [S EXCEPT !.liveOperationCode = IF applied.ok THEN applied.str ELSE snapshot,
                   !.base = snapshot,
                   !.built = <<built.op>>,
                   !.out = Append(@, built.op),
                   !.threw = ~applied.ok,
                   !.rafQueue = IF applied.ok THEN Append(@, ClearLive) ELSE @]

\* The operation of an edit held back while liveOperationCode is set
CoalesceInFrame(S, snapshot, built, applied) ==
  IF ~built.ok \/ ~applied.ok
    THEN [S EXCEPT !.liveOperationCode = snapshot, !.base = snapshot, !.threw = TRUE,
                   !.built = IF built.ok THEN <<built.op>> ELSE <<>>]
    ELSE [S EXCEPT !.liveOperationCode = applied.str,
                   !.base = snapshot,
                   !.built = <<built.op>>,
                   !.out = IF S.liveOperationCode # <<>> THEN @ ELSE Append(@, built.op),
                   !.rafQueue = Append(@, ClearLive)]

\* From otOperation.apply on: a failed apply throws, a successful one is
\* stored, the operation sent and the reset of liveOperationCode scheduled
ApplyAndSend(S, snapshot, built, applied) ==
  IF ~built.ok \/ ~applied.ok
    THEN [S EXCEPT !.liveOperationCode = AfterFailedApply(snapshot),
                   !.base = snapshot, !.threw = TRUE,
                   !.built = IF built.ok THEN <<built.op>> ELSE <<>>]
    ELSE [S EXCEPT !.liveOperationCode = applied.str,
                   !.base = snapshot,
                   !.built = <<built.op>>,
                   !.out = Append(@, built.op),
                   !.rafQueue = Append(@, ClearLive)]

\* An operation sent while the snapshot stays as it was
SendWithoutApplying(S, snapshot, built) ==
  ApplyAndSend(S, snapshot, built,
               [ok |-> OpApply(built.op, snapshot).ok, str |-> snapshot])

SendBuilt(S, snapshot, built) ==
  ApplyAndSend(S, snapshot, built, OpApply(built.op, snapshot))

TranslateAndSend(S, snapshot, changes) ==
  SendBuilt(S, snapshot, BuildOperation(snapshot, changes))

sendChangeOperations(S, changes) ==
  IF S.props.sendTransforms THEN TranslateAndSend(S, Snapshot(S), changes)
  ELSE IF ~S.props.isLive /\ S.props.onCodeReceived
    THEN [S EXCEPT !.received = @ + 1]
  ELSE S

\* The guard without its test of receivingCode
ShouldSendWhileReceiving(S) == S.props.isLive /\ S.props.sendTransforms

\* The guard of the content-change listener
ShouldSend(S) == S.props.isLive /\ S.props.sendTransforms /\ ~S.receivingCode

\* A listener that catches the error and goes on to handleChange
HandleAfterThrow(S) == handleChange(S)

\* What the listener still does when sendChangeOperations threw
AfterThrow(S) == S

\* editor.onDidChangeModelContent(e => ...): the listener after its call of
\* sendChangeOperations, the listener itself, and one call of it by the editor
ThenHandleChange(S1) == IF S1.threw THEN AfterThrow(S1) ELSE handleChange(S1)

Listener(S0, changes) ==
  ThenHandleChange(IF ShouldSend(S0) THEN sendChangeOperations(S0, changes) ELSE S0)

Counted(S) ==
  [S EXCEPT !.threw = FALSE, !.mutations = @ + 1,
            !.unguarded = @ + (IF S.receivingCode THEN 0 ELSE 1)]

KeepThrew(before, S2) == [S2 EXCEPT !.threw = before \/ @]

onDidChangeModelContent(S, changes) == KeepThrew(S.threw, Listener(Counted(S), changes))

\* model.applyEdits([edit]) / pushEditOperations([], [edit]): the edit, then the
\* listener with the one change
\* An edit of an empty range with no text changes nothing and raises no event
Edited(S, r) ==
  IF r.change.rangeLength = 0 /\ r.change.text = <<>> THEN S
  ELSE onDidChangeModelContent([S EXCEPT !.models[S.shown] = r.model], <<r.change>>)

applyEdits(S, range, text) == Edited(S, ApplyEdit(S.models[S.shown], range, text))

\* ------------------------------------------------------------ applyOperation
\* applyEdits([{range: new monaco.Range(from, to), text}])
EditBetween(S, from, to, text) ==
  applyEdits(S, Range(from.lineNumber, from.column, to.lineNumber, to.column), text)

\* A range that ends at index and starts n characters before it
DeleteToBefore(index, n) == index + n

\* The range a delete step removes with the cursor at index starts at index and
\* ends at index - op, op being the negative number the step is stored as
DeleteTo(index, n) == index - n

\* One step of the loop over operation.ops: acc = [S, index]
ApplyStep(acc, op) ==
  LET S == acc.S
      index == acc.index
      lines == getLinesContent(S.models[S.shown])
  IN  IF isRetain(op) THEN [S |-> S, index |-> index + op.n]
      ELSE IF isInsert(op)
        THEN [S |-> EditBetween(S, indexToLineAndColumn(lines, index),
                                indexToLineAndColumn(lines, index), op.s),
              index |-> index + Len(op.s)]
      ELSE IF isDelete(op)
        THEN [S |-> EditBetween(S, indexToLineAndColumn(lines, index),
                                indexToLineAndColumn(lines, DeleteTo(index, op.n)), <<>>),
              index |-> index]
      ELSE acc

RECURSIVE ApplySteps(_, _)
ApplySteps(acc, ops) ==
  IF ops = <<>> THEN acc ELSE ApplySteps(ApplyStep(acc, Head(ops)), Tail(ops))

\* applyOperation that compares the operation with the text's length first
applyOperationChecked(S, operation) ==
  IF operation.baseLength # Len(getValue(S.models[S.shown]))
    THEN [S EXCEPT !.liveOperationCode = <<>>, !.threw = TRUE]
    ELSE ApplySteps([S |-> [S EXCEPT !.liveOperationCode = <<>>], index |-> 0],
                    operation.ops).S

\* applyOperation without its first statement
applyOperationKeepingSnapshot(S, operation) ==
  ApplySteps([S |-> S, index |-> 0], operation.ops).S

applyOperation(S, operation) ==
  ApplySteps([S |-> [S EXCEPT !.liveOperationCode = <<>>], index |-> 0], operation.ops).S

setReceivingCode(S, receiving) == [S EXCEPT !.receivingCode = receiving]

\* The host's handler of a remote operation: the flag is set around the call
onOperationReceived(S, operation) ==
  setReceivingCode(applyOperation(setReceivingCode(S, TRUE), operation), FALSE)

\* ------------------------------------------------- changeCode and changeModule
getCode(S) == getValue(S.models[S.shown])

updateCode(S, newCode) ==
  LET lines == getLinesContent(S.models[S.shown])
      lastLine == Len(lines)
      lastLineColumn == Len(lines[Len(lines)])
  IN  applyEdits([S EXCEPT !.liveOperationCode = getCode(S)],
                 Range(0, 0, lastLine + 1, lastLineColumn), newCode)

changeCode(S, newCode) == IF newCode # getCode(S) THEN updateCode(S, newCode) ELSE S

\* A callback that leaves the flag down
NoFlagWhileSwitching == FALSE

\* What the callback of swapDocuments(...).then sets the flag to before changeCode
FlagWhileSwitching == TRUE

\* A changeModule that cancels the debounced selection call
changeModuleCancelling(S, newModule) ==
  [S EXCEPT !.currentModule = newModule, !.pendingSelection = <<>>]

\* changeModule up to the await in swapDocuments
changeModuleStart(S, newModule) == [S EXCEPT !.currentModule = newModule]

\* openNewModel after getModelById: editor.setModel(modelInfo.model)
openNewModel(S, id) == [S EXCEPT !.shown = id]

\* A callback that writes the code whichever module is current
ChangeCodeAlways(S, newModule) == changeCode(S, S.code[newModule])

\* The callback of swapDocuments(...).then in changeModule
\* if (newModule === this.currentModule) this.changeCode(newModule.code || '')
ChangeCodeIfCurrent(S, newModule) ==
  IF newModule = S.currentModule THEN changeCode(S, S.code[newModule]) ELSE S

\* if (this.props.onCodeReceived) { onCodeReceived(); this.liveOperationCode = '' }
CodeReceived(S) ==
  IF S.props.onCodeReceived
    THEN [S EXCEPT !.received = @ + 1, !.liveOperationCode = <<>>]
    ELSE S

\* A callback that leaves the flag up after changeCode
changeModuleThenReceiving(S, newModule) ==
  CodeReceived(ChangeCodeIfCurrent(setReceivingCode(S, FlagWhileSwitching), newModule))

changeModuleThen(S, newModule) ==
  CodeReceived(setReceivingCode(
    ChangeCodeIfCurrent(setReceivingCode(S, FlagWhileSwitching), newModule), FALSE))

\* ------------------------------------------------- sequences of the store
\* Sequences that change the code first and send the transform afterwards
SequenceStepsChangeFirst(name, isLive, hasCode) ==
  LET change == IF name = "discardModuleChanges" THEN "changeCode" ELSE "saveCode"
  IN  IF name = "changeCurrentModule" THEN <<"setReceivingStatus", "setCurrentModule">>
      ELSE IF name = "discardModuleChanges" /\ ~hasCode THEN <<>>
      ELSE IF isLive
        THEN <<"setReceivingStatus", change, "getCodeOperation", "sendTransform",
               "unSetReceivingStatus">>
      ELSE <<change>>

\* The steps a sequence runs: equals(state`live.isLive`) chooses between the
\* live steps and the code change alone; discardModuleChanges runs nothing
\* when getSavedCode gave no code (hasCode)
SequenceSteps(name, isLive, hasCode) ==
  LET change == IF name = "discardModuleChanges" THEN "changeCode" ELSE "saveCode"
  IN  IF name = "changeCurrentModule" THEN <<"setReceivingStatus", "setCurrentModule">>
      ELSE IF name = "discardModuleChanges" /\ ~hasCode THEN <<>>
      ELSE IF isLive
        THEN <<"setReceivingStatus", "getCodeOperation", "sendTransform", change,
               "unSetReceivingStatus">>
      ELSE <<change>>

\* The steps run in order: setReceivingStatus and unSetReceivingStatus write
\* the status, every step is noted with the status it leaves
RECURSIVE RunSteps(_, _)
RunSteps(S, steps) ==
  IF steps = <<>> THEN S
  ELSE LET after == IF Head(steps) = "setReceivingStatus" THEN TRUE
                    ELSE IF Head(steps) = "unSetReceivingStatus" THEN FALSE
                    ELSE S.status
       IN  RunSteps([S EXCEPT !.status = after,
                              !.ran = Append(@, [step |-> Head(steps), status |-> after])],
                    Tail(steps))

runSequence(S, name, hasCode) ==
  RunSteps([S EXCEPT !.ran = <<>>], SequenceSteps(name, S.props.isLive, hasCode))

\* ------------------------------------------------------ updateUserSelections
Users == {"u1", "u2"}

\* The decoration a cursor at an offset gets (addCursor)
CursorDecoration(lines, position, userId, role) ==
  [owner |-> userId, role |-> role,
   from |-> indexToLineAndColumn(lines, position),
   to |-> indexToLineAndColumn(lines, position)]

\* The decoration a selection between two offsets gets (addSelection)
SelectionDecoration(lines, start, end, userId, role) ==
  [owner |-> userId, role |-> role,
   from |-> indexToLineAndColumn(lines, start),
   to |-> indexToLineAndColumn(lines, end)]

\* addCursor, then addSelection if (s.selection.length)
DecorationsOfOne(lines, s, userId, cursorRole, selectionRole) ==
  <<CursorDecoration(lines, s.cursorPosition, userId, cursorRole)>>
    \o (IF Len(s.selection) > 0
          THEN <<SelectionDecoration(lines, s.selection[1], s.selection[2], userId,
                                     selectionRole)>>
          ELSE <<>>)

RECURSIVE DecorationsOfEach(_, _, _)
DecorationsOfEach(lines, secondary, userId) ==
  IF secondary = <<>> THEN <<>>
  ELSE DecorationsOfOne(lines, Head(secondary), userId,
                        "secondary-cursor", "secondary-selection")
         \o DecorationsOfEach(lines, Tail(secondary), userId)

\* The decorations array updateUserSelections collects for one user
DecorationsOf(lines, selection, userId) ==
  DecorationsOfOne(lines, selection.primary, userId, "cursor", "selection")
    \o DecorationsOfEach(lines, selection.secondary, userId)

\* this.userSelectionDecorations[decorationId] = this.editor.deltaDecorations(
\*   this.userSelectionDecorations[decorationId] || [], newDecorations, userId):
\* the editor removes from the model it shows the decorations with the old ids,
\* adds the new ones under ids never used before, and returns these ids
DeltaDecorations(S, decorationId, newDecorations, userId) ==
  [S EXCEPT
     !.decorations[S.shown] =
        {d \in @ : d.id \notin S.userSelectionDecorations[decorationId]}
          \cup {[id |-> S.decorationIds + i, owner |-> newDecorations[i].owner,
                 role |-> newDecorations[i].role, from |-> newDecorations[i].from,
                 to |-> newDecorations[i].to] : i \in 1..Len(newDecorations)},
     !.userSelectionDecorations[decorationId] =
        {S.decorationIds + i : i \in 1..Len(newDecorations)},
     !.decorationIds = @ + Len(newDecorations)]

\* requestAnimationFrame(() => { ... deltaDecorations(..., decorations, userId) })
DecorateInFrame(S, decorationId, newDecorations, userId) ==
  [S EXCEPT !.rafQueue = Append(@, [task |-> "decorate", decorationId |-> decorationId,
                                    decorations |-> newDecorations, userId |-> userId])]

\* The body of userSelections.forEach: data = [userId, selection], selection
\* <<>> for null and <<s>> for a selection s
UpdateUserSelection(S, lines, data) ==
  IF data.selection = <<>>
    THEN [DeltaDecorations(S, <<S.currentModule, data.userId>>, <<>>, data.userId)
            EXCEPT !.gone = @ \cup {<<S.shown, data.userId>>}]
    ELSE [DecorateInFrame(S, <<S.currentModule, data.userId>>,
                          DecorationsOf(lines, data.selection[1], data.userId), data.userId)
            EXCEPT !.gone = {g \in @ : g[2] # data.userId}]

RECURSIVE UpdateEach(_, _, _)
UpdateEach(S, lines, userSelections) ==
  IF userSelections = <<>> THEN S
  ELSE UpdateEach(UpdateUserSelection(S, lines, Head(userSelections)), lines,
                  Tail(userSelections))

updateUserSelections(S, userSelections) ==
  UpdateEach(S, getLinesContent(S.models[S.shown]), userSelections)

\* ------------------------------------------------ onDidChangeCursorSelection
getSelection(lines, selection) ==
  [selection |->
     IF lineAndColumnToIndex(lines, selection.startLineNumber, selection.startColumn).index
          = lineAndColumnToIndex(lines, selection.endLineNumber, selection.endColumn).index
       THEN <<>>
       ELSE <<lineAndColumnToIndex(lines, selection.startLineNumber,
                                   selection.startColumn).index,
              lineAndColumnToIndex(lines, selection.endLineNumber,
                                   selection.endColumn).index>>,
   cursorPosition |->
     lineAndColumnToIndex(lines, selection.positionLineNumber,
                          selection.positionColumn).index]

RECURSIVE GetSelections(_, _)
GetSelections(lines, selections) ==
  IF selections = <<>> THEN <<>>
  ELSE <<getSelection(lines, Head(selections))>> \o GetSelections(lines, Tail(selections))

\* { selection: data, moduleShortid: this.currentModule.shortid }
SelectionPayload(S, selectionChange) ==
  [selection |->
     [primary |-> getSelection(getLinesContent(S.models[S.shown]), selectionChange.selection),
      secondary |-> GetSelections(getLinesContent(S.models[S.shown]),
                                  selectionChange.secondarySelections)],
   moduleShortid |-> S.currentModule]

\* reason === 3 || source === 'moveWordCommand' || source === 'api'
IsDiscrete(selectionChange) ==
  \/ selectionChange.reason = 3
  \/ selectionChange.source = "moveWordCommand"
  \/ selectionChange.source = "api"

\* this.props.onSelectionChanged(data)
CallOnSelectionChanged(S, data) == [S EXCEPT !.delivered = Append(@, data)]

\* A send that leaves the debounced call waiting
SendWithoutCancel(S, data) == CallOnSelectionChanged(S, data)

\* this.onSelectionChangedDebounced.cancel(); onSelectionChanged({...})
SendAtOnce(S, data) ==
  CallOnSelectionChanged([S EXCEPT !.pendingSelection = <<>>], data)

\* A debounce that keeps the first call of a burst waiting
DebounceLeading(S, data) ==
  IF S.pendingSelection = <<>> THEN [S EXCEPT !.pendingSelection = <<data>>] ELSE S

\* A call of the function debounce(this.onSelectionChangedDebounced, 500) made:
\* the timer starts again and the call that waits is this one
Debounce(S, data) == [S EXCEPT !.pendingSelection = <<data>>]

SelectionListener(S, selectionChange, data) ==
  IF IsDiscrete(selectionChange) /\ S.props.onSelectionChanged
    THEN SendAtOnce(S, data)
    ELSE Debounce(S, data)

onDidChangeCursorSelection(S, selectionChange) ==
  IF S.props.isLive
    THEN SelectionListener([S EXCEPT !.lastSelection =
                                       <<SelectionPayload(S, selectionChange)>>],
                           selectionChange, SelectionPayload(S, selectionChange))
    ELSE S

\* onSelectionChangedDebounced = data => { if (this.props.onSelectionChanged) ... }
onSelectionChangedDebounced(S, data) ==
  IF S.props.onSelectionChanged THEN CallOnSelectionChanged(S, data) ELSE S

\* The timer of the debounced function expires: the call that waits is made
DebounceExpires(S) ==
  onSelectionChangedDebounced([S EXCEPT !.pendingSelection = <<>>], S.pendingSelection[1])

\* requestAnimationFrame's turn: every callback queued so far runs
RECURSIVE RunCallbacks(_, _)

\* A frame that runs no callback
RunNoCallbacks(S, queue) == S
RunCallbacks(S, queue) ==
  IF queue = <<>> THEN S
  ELSE RunCallbacks(IF Head(queue).task = ClearLive.task
                      THEN [S EXCEPT !.liveOperationCode = <<>>]
                    ELSE IF Head(queue).task = "decorate"
                      THEN DeltaDecorations(S, Head(queue).decorationId,
                                            Head(queue).decorations, Head(queue).userId)
                    ELSE S,
                    Tail(queue))

\* ------------------------------------------------------------------ inputs
\* Letters and line breaks of a model, a line break counted once
DocSize(m) == SumLen(m.lines) + Len(m.lines) - 1

LinesUpTo(n) == UNION {[1..k -> Letter] : k \in 0..n}

AllDocs ==
  {d \in [lines : UNION {[1..k -> LinesUpTo(MaxDocSize)] : k \in 1..MaxLines},
          eol : Eols] : DocSize(d) <= MaxDocSize}

\* What a user types, pastes or cuts at a cursor: a letter, Enter, nothing
TypedTexts == {<<>>, <<"x">>, <<LF>>}

PositionsOf(m) ==
  UNION {{[lineNumber |-> l, column |-> c] : c \in 1..(Len(m.lines[l]) + 1)} :
         l \in 1..Len(m.lines)}

NotAfter(m, p, q) == getOffsetAt(m, p) <= getOffsetAt(m, q)

EditOf(p, q, t) ==
  [range |-> Range(p.lineNumber, p.column, q.lineNumber, q.column), text |-> t]

\* The edits of one cursor: a selection p..q (empty when p = q) replaced by t
SingleEdits(m) ==
  {<<EditOf(p, q, t)>> :
     <<p, q, t>> \in {x \in PositionsOf(m) \X PositionsOf(m) \X TypedTexts :
                        NotAfter(m, x[1], x[2]) /\ ~(x[1] = x[2] /\ x[3] = <<>>)}}

\* The edits of two cursors typing the same text, the second selection after
\* the first; the editor executes and reports them last one first
DoubleEdits(m) ==
  {<<EditOf(x[3], x[4], x[5]), EditOf(x[1], x[2], x[5])>> :
     x \in {y \in PositionsOf(m) \X PositionsOf(m) \X PositionsOf(m) \X PositionsOf(m)
                   \X TypedTexts :
              /\ NotAfter(m, y[1], y[2]) /\ NotAfter(m, y[2], y[3]) /\ NotAfter(m, y[3], y[4])
              /\ y[1] # y[4]
              /\ ~(y[5] = <<>> /\ (y[1] = y[2] \/ y[3] = y[4]))}}

UserEdits(m) == SingleEdits(m) \cup DoubleEdits(m)

\* editor.executeEdits: the edits one after the other, each on the text the
\* ones after it in the document have already changed; acc = [model, changes]
RECURSIVE ExecuteEdits(_, _)
ExecuteEdits(acc, edits) ==
  IF edits = <<>> THEN acc
  ELSE LET r == ApplyEdit(acc.model, Head(edits).range, Head(edits).text)
       IN  ExecuteEdits([model |-> r.model, changes |-> Append(acc.changes, r.change)],
                        Tail(edits))

\* A user's edit in the editor: the model changes, the listener gets the changes
Executed(S, r) ==
  onDidChangeModelContent([S EXCEPT !.models[S.shown] = r.model], r.changes)

userEdit(S, edits) ==
  Executed(S, ExecuteEdits([model |-> S.models[S.shown], changes |-> <<>>], edits))

\* The operations a peer may send: built from at most MaxOpSteps builder calls
InsertTexts == {<<"x">>, <<LF>>, <<CR, LF>>}

BuilderCalls ==
  {[k |-> "r", n |-> n, s |-> <<>>] : n \in 1..(MaxDocSize + 2)}
    \cup {[k |-> "d", n |-> n, s |-> <<>>] : n \in 1..2}
    \cup {[k |-> "i", n |-> 0, s |-> t] : t \in InsertTexts}

RECURSIVE BuildFrom(_, _)
BuildFrom(o, calls) ==
  IF calls = <<>> THEN o
  ELSE LET c == Head(calls)
       IN  BuildFrom(IF c.k = "r" THEN OpRetain(o, c.n)
                     ELSE IF c.k = "d" THEN OpDelete(o, c.n)
                     ELSE OpInsert(o, c.s),
                     Tail(calls))

AllOperations ==
  {BuildFrom(EmptyOperation, calls) :
     calls \in UNION {[1..k -> BuilderCalls] : k \in 1..MaxOpSteps}}

\* A selection of the editor from p to q, the cursor at q
SelectionOf(p, q) ==
  [startLineNumber |-> p.lineNumber, startColumn |-> p.column,
   endLineNumber |-> q.lineNumber, endColumn |-> q.column,
   positionLineNumber |-> q.lineNumber, positionColumn |-> q.column]

FirstPosition == [lineNumber |-> 1, column |-> 1]

LastPosition(m) ==
  [lineNumber |-> Len(m.lines), column |-> Len(m.lines[Len(m.lines)]) + 1]

\* What the editor reports: a cursor at the start of the text or a selection
\* of the whole text, alone or with a second cursor; typed, moved by mouse or
\* arrow keys (reason 3), by a word command, or set by the program
SelectionChanges(m) ==
  {[selection |-> SelectionOf(FirstPosition, x[1]), secondarySelections |-> x[2],
    reason |-> x[3][1], source |-> x[3][2]] :
     x \in {y \in {FirstPosition, LastPosition(m)}
                  \X {<<>>, <<SelectionOf(FirstPosition, FirstPosition)>>}
                  \X {<<0, "keyboard">>, <<3, "mouse">>, <<0, "moveWordCommand">>,
                      <<0, "api">>} :
              y[2] # <<>> => y[1] # FirstPosition}}

\* A peer's selection as it arrives: a primary and a secondary selection with
\* their cursors, the secondary one reaching past the end of the text
Selected(start, end) == [selection |-> <<start, end>>, cursorPosition |-> end]

PeerSelections ==
  {[primary |-> Selected(0, 1), secondary |-> <<Selected(1, MaxDocSize + 1)>>]}

\* userSelections: selection <<>> is null
UserUpdates ==
  {[userId |-> u, selection |-> sel] :
     <<u, sel>> \in Users \X ({<<>>} \cup {<<x>> : x \in PeerSelections})}

UserSelectionArrays == UNION {[1..k -> UserUpdates] : k \in 1..MaxUpdates}

\* ----------------------------------------------------------------- actions
NoOperation == EmptyOperation

\* What the handler that ran last did: the text of the shown model before and
\* after it, liveOperationCode before it, and what the handler's record collected
Did(kind, S, operation) ==
  [kind |-> kind,
   pre |-> getValue(models[shown]),
   post |-> getValue(S.models[S.shown]),
   live0 |-> liveOperationCode,
   code0 |-> code[currentModule],
   flag0 |-> receivingCode,
   module0 |-> currentModule,
   pending0 |-> pendingSelection,
   delivered0 |-> delivered,
   sends0 |-> frameSends,
   queue0 |-> rafQueue,
   afterFlush |-> (last.kind = "frame" /\ last.sends0 > 0),
   base |-> S.base, built |-> S.built, out |-> S.out, threw |-> S.threw, received |-> S.received,
   mutations |-> S.mutations, unguarded |-> S.unguarded, handled |-> S.handled,
   op |-> operation]

\* The operations passed to sendTransforms applied in order to a text
RECURSIVE ApplyEach(_, _)
ApplyEach(out, text) ==
  IF out = <<>> THEN text
  ELSE ApplyEach(Tail(out),
                 [local |-> text.local,
                  applied |-> text.applied /\ OpApply(Head(out), text.text).ok,
                  text |-> OpApply(Head(out), text.text).str])

NoFrameText == [local |-> TRUE, applied |-> TRUE, text |-> <<>>]

\* The frame's text after a handler: a frame starts it anew, a user's edit
\* applies what it sent (the first edit of a frame to the text before it)
FrameTextAfter(kind, S) ==
  IF kind = "frame" THEN NoFrameText
  ELSE IF kind = "local"
    THEN ApplyEach(S.out, IF frameEdits = 0
                            THEN [local |-> TRUE, applied |-> TRUE,
                                  text |-> getValue(models[shown])]
                            ELSE frameText)
  ELSE [frameText EXCEPT !.local = FALSE]

Commit(kind, S, operation) ==
  /\ last' = Did(kind, S, operation)
  /\ frameText' = FrameTextAfter(kind, S)
  /\ frameSends' = (IF kind = "frame" THEN 0 ELSE frameSends + Len(S.out))
  /\ models' = S.models
  /\ shown' = S.shown
  /\ currentModule' = S.currentModule
  /\ code' = S.code
  /\ liveOperationCode' = S.liveOperationCode
  /\ receivingCode' = S.receivingCode
  /\ rafQueue' = S.rafQueue
  /\ decorations' = S.decorations
  /\ userSelectionDecorations' = S.userSelectionDecorations
  /\ decorationIds' = S.decorationIds
  /\ pendingSelection' = S.pendingSelection
  /\ delivered' = S.delivered
  /\ gone' = S.gone
  /\ lastSelection' = S.lastSelection
  /\ props' = props
  /\ mapper' = mapper
  /\ status' = S.status
  /\ ran' = S.ran
  /\ events' = (IF kind \in {"open", "then", "debounce"} THEN events ELSE events + 1)

\* No microtask is pending: a swap whose model is open runs its then-callback
\* before any event of the editor, the host or the frame is handled
Settled == \A i \in 1..Len(swaps) : swaps[i].stage = "open"

\* An event of the editor, the host or the frame can be handled
Ready == Settled /\ events < MaxEvents

Remove(seq, i) == SubSeq(seq, 1, i - 1) \o SubSeq(seq, i + 1, Len(seq))

\* The user edits the text the editor shows
LocalEdit(userEdits) ==
  /\ Ready
  /\ frameEdits < MaxFrameEdits
  /\ \E edits \in userEdits :
       Commit("local", userEdit(Editor, edits), NoOperation)
  /\ frameEdits' = frameEdits + 1
  /\ UNCHANGED swaps

\* A peer's operation arrives for the module that is open
RemoteOperation(operations) ==
  /\ Ready
  /\ props.isLive
  /\ \E operation \in operations :
       Commit("remote", onOperationReceived(Editor, operation), operation)
  /\ UNCHANGED <<swaps, frameEdits>>

\* The host calls setReceivingCode
SetReceivingCode ==
  /\ Ready
  /\ \E receiving \in BOOLEAN :
       /\ receiving # receivingCode
       /\ Commit("flag", setReceivingCode(Editor, receiving), NoOperation)
  /\ UNCHANGED <<swaps, frameEdits>>

\* The host calls changeModule(newModule); newCode is the code the module has by
\* now in the store (a peer may have changed a module that is not open)
ChangeModule ==
  /\ Ready
  /\ Len(swaps) < MaxSwaps
  /\ \E newModule \in Modules : \E newCode \in {code[newModule], <<"b">>} :
       /\ newModule = currentModule => newCode = code[newModule]
       /\ Commit("changeModule",
                 changeModuleStart([Editor EXCEPT !.code[newModule] = newCode], newModule),
                 NoOperation)
       /\ swaps' = Append(swaps, [next |-> newModule, stage |-> "open"])
  /\ UNCHANGED frameEdits

\* The sequence changeCurrentModule runs and the host calls changeModule, also
\* while the swap of an earlier call is waiting for its model
ChangeCurrentModule ==
  /\ Ready
  /\ Len(swaps) < MaxPending
  /\ \E newModule \in Modules : \E newCode \in {code[newModule], <<"b">>} :
       /\ newModule = currentModule => newCode = code[newModule]
       /\ Commit("changeModule",
                 changeModuleStart(
                   runSequence([Editor EXCEPT !.code[newModule] = newCode],
                               "changeCurrentModule", FALSE),
                   newModule),
                 NoOperation)
       /\ swaps' = Append(swaps, [next |-> newModule, stage |-> "open"])
  /\ UNCHANGED frameEdits

\* A sequence that changes code runs
RunSequence ==
  /\ Ready
  /\ \E name \in {"discardModuleChanges", "addNpmDependency", "removeNpmDependency"} :
       \E hasCode \in BOOLEAN :
         Commit(name, runSequence(Editor, name, hasCode), [hasCode |-> hasCode])
  /\ UNCHANGED <<swaps, frameEdits>>

\* getModelById of a pending swap resolves (it awaits createModel and getMode
\* for a module that has no model yet, so events of the editor and the host can
\* be handled before it does): openNewModel shows the model
SwapOpened ==
  /\ \E i \in 1..Len(swaps) :
       /\ swaps[i].stage = "open"
       /\ Commit("open", openNewModel(Editor, swaps[i].next), NoOperation)
       /\ swaps' = [swaps EXCEPT ![i].stage = "then"]
  /\ UNCHANGED frameEdits

\* The then-callback of a swap whose model is open
SwapThen ==
  /\ \E i \in 1..Len(swaps) :
       /\ swaps[i].stage = "then"
       /\ Commit("then", changeModuleThen(Editor, swaps[i].next), [next |-> swaps[i].next])
       /\ swaps' = Remove(swaps, i)
  /\ UNCHANGED frameEdits

\* The browser runs the animation frame's callbacks
AnimationFrame ==
  /\ Ready
  /\ frameEdits > 0 \/ rafQueue # <<>>
  /\ Commit("frame", [RunCallbacks(Editor, rafQueue) EXCEPT !.rafQueue = <<>>], NoOperation)
  /\ frameEdits' = 0
  /\ UNCHANGED swaps

\* A peer's selections arrive: the host calls updateUserSelections
UpdateUserSelections(selections) ==
  /\ Ready
  /\ \E userSelections \in selections :
       Commit("selections", updateUserSelections(Editor, userSelections),
              [userSelections |-> userSelections])
  /\ UNCHANGED <<swaps, frameEdits>>

\* The editor reports a change of the cursor or the selection
SelectionChanged(selectionChanges) ==
  /\ Ready
  /\ \E selectionChange \in selectionChanges :
       Commit("cursor", onDidChangeCursorSelection(Editor, selectionChange), selectionChange)
  /\ UNCHANGED <<swaps, frameEdits>>

\* The delay of the debounced function has passed since its last call
DebounceFire ==
  /\ Settled
  /\ pendingSelection # <<>>
  /\ Commit("debounce", DebounceExpires(Editor), NoOperation)
  /\ UNCHANGED <<swaps, frameEdits>>

\* getSelection's use of the mapper followed by updateUserSelections': a
\* position of the text to its offset and the offset back to a position
RoundTrip ==
  /\ \E lineNumber \in 1..Len(mapper.lines) :
       \E column \in 1..(Len(mapper.lines[lineNumber]) + 1) :
         mapper' =
           [call |-> "roundTrip", lines |-> mapper.lines,
            lineNumber |-> lineNumber, column |-> column,
            index |-> lineAndColumnToIndex(mapper.lines, lineNumber, column).index,
            result |->
              indexToLineAndColumn(
                mapper.lines,
                lineAndColumnToIndex(mapper.lines, lineNumber, column).index)]
  /\ UNCHANGED <<frameText, status, ran, models, shown, currentModule, code, liveOperationCode, receivingCode,
                 props, rafQueue, swaps, frameEdits, frameSends, events, last,
                 decorations, userSelectionDecorations, decorationIds,
                 pendingSelection, delivered, gone, lastSelection>>

\* indexToLineAndColumn on an offset inside the text or beyond it
ToLineAndColumn ==
  /\ \E index \in 0..(SumLen(mapper.lines) + Len(mapper.lines) + MaxBeyond) :
       mapper' =
         [call |-> "indexToLineAndColumn", lines |-> mapper.lines,
          lineNumber |-> 0, column |-> 0, index |-> index,
          result |-> indexToLineAndColumn(mapper.lines, index)]
  /\ UNCHANGED <<frameText, status, ran, models, shown, currentModule, code, liveOperationCode, receivingCode,
                 props, rafQueue, swaps, frameEdits, frameSends, events, last,
                 decorations, userSelectionDecorations, decorationIds,
                 pendingSelection, delivered, gone, lastSelection>>

\* ----------------------------------------------------------- specifications
LiveProps ==
  [isLive |-> TRUE, sendTransforms |-> TRUE, onCodeReceived |-> TRUE,
   onSelectionChanged |-> TRUE]

\* The editor after configureEditor: every module has its model, made of the
\* module's code, and the current module's model is shown
InitShowing(docs, propSet, shownDecorations) ==
  /\ \E d \in docs :
       /\ models = [m \in Modules |-> IF m = "m1" THEN d ELSE ModelOf(<<"a">>, d.eol)]
       /\ code = [m \in Modules |-> IF m = "m1" THEN getValue(d) ELSE <<"a">>]
  /\ shown = "m1"
  /\ currentModule = "m1"
  /\ liveOperationCode = <<>>
  /\ receivingCode = FALSE
  /\ props \in propSet
  /\ rafQueue = <<>>
  /\ decorations = [m \in Modules |-> IF m = "m1" THEN shownDecorations ELSE {}]
  /\ userSelectionDecorations =
       [k \in Modules \X Users |->
          {d.id : d \in {x \in shownDecorations : k = <<"m1", x.owner>>}}]
  /\ decorationIds = Cardinality(shownDecorations)
  /\ pendingSelection = <<>>
  /\ delivered = <<>>
  /\ gone = {}
  /\ lastSelection = <<>>
  /\ swaps = <<>>
  /\ frameEdits = 0
  /\ frameSends = 0
  /\ frameText = NoFrameText
  /\ status = FALSE
  /\ ran = <<>>
  /\ events = 0
  /\ last = [kind |-> "init", pre |-> <<>>, post |-> <<>>, live0 |-> <<>>,
             code0 |-> <<>>, flag0 |-> FALSE, module0 |-> "m1", pending0 |-> <<>>,
             delivered0 |-> <<>>, sends0 |-> 0, queue0 |-> <<>>, afterFlush |-> FALSE, base |-> <<>>, built |-> <<>>, out |-> <<>>,
             threw |-> FALSE, received |-> 0, mutations |-> 0, unguarded |-> 0,
             handled |-> 0, op |-> NoOperation]

\* The editor after configureEditor: no peer has a decoration
InitEditor(docs, propSet) == InitShowing(docs, propSet, {})

\* No call of the offset mapper yet
NotCalled(lines) ==
  [call |-> "none", lines |-> lines, lineNumber |-> 0, column |-> 0, index |-> 0,
   result |-> [lineNumber |-> 0, column |-> 0]]

InitWith(docs, propSet) == InitEditor(docs, propSet) /\ mapper = NotCalled(<<>>)

\* A peer's operation on the shown text of length n: one insertion or one
\* deletion somewhere in it
SimpleOperations(n) ==
  {OpRetain(OpInsert(OpRetain(EmptyOperation, r), t), n - r) :
     <<r, t>> \in (0..n) \X {<<"x">>, <<LF>>}}
  \cup {OpRetain(OpDelete(OpRetain(EmptyOperation, r), 1), n - r - 1) : r \in 0..(n - 1)}

\* One key pressed at one cursor: a letter, Enter, Backspace
KeyEdits(m) ==
  {e \in SingleEdits(m) :
     LET from == [lineNumber |-> e[1].range.startLineNumber, column |-> e[1].range.startColumn]
         to == [lineNumber |-> e[1].range.endLineNumber, column |-> e[1].range.endColumn]
     IN  IF e[1].text = <<>> THEN getOffsetAt(m, to) - getOffsetAt(m, from) = Len(m.eol)
                                  \/ (to.lineNumber = from.lineNumber /\ to.column = from.column + 1)
         ELSE from = to}

StartDocs ==
  {ModelOf(<<"a", "b">>, EolLF), ModelOf(<<"a", CR, LF, "b">>, EolCRLF)}

StartProps ==
  {LiveProps, [LiveProps EXCEPT !.onCodeReceived = FALSE], [LiveProps EXCEPT !.isLive = FALSE]}

Init == InitWith(StartDocs, StartProps)

Next ==
  \/ LocalEdit(KeyEdits(models[shown]))
  \/ RemoteOperation(SimpleOperations(Len(getValue(models[shown]))))
  \/ SetReceivingCode
  \/ ChangeModule
  \/ SwapOpened
  \/ SwapThen
  \/ AnimationFrame

Spec == Init /\ [][Next]_vars

\* sendChangeOperations on every text and every edit of one or two cursors
InitTranslate == InitWith(AllDocs, {LiveProps})
NextTranslate == last.kind = "init" /\ LocalEdit(UserEdits(models[shown]))
SpecTranslate == InitTranslate /\ [][NextTranslate]_vars

\* applyOperation on every text and every operation that spans the text or
\* misses its length by one
InitApply == InitWith(AllDocs, {LiveProps})
NearOperations(n) == {o \in AllOperations : o.baseLength \in (n - 1)..(n + 1)}
NextApply ==
  last.kind = "init" /\ RemoteOperation(NearOperations(Len(getValue(models[shown]))))
SpecApply == InitApply /\ [][NextApply]_vars

\* Selections: the peers' selections shown as decorations and the editor's
\* own selection sent, while modules are switched and frames pass
SelectionProps ==
  {LiveProps, [LiveProps EXCEPT !.onSelectionChanged = FALSE],
   [LiveProps EXCEPT !.isLive = FALSE]}

\* A text of two lines
SelectionDocs == {ModelOf(<<"a", LF, "b">>, EolLF)}

InitSelections == InitWith(SelectionDocs, SelectionProps)

NextSelections ==
  \/ UpdateUserSelections(UserSelectionArrays)
  \/ SelectionChanged(SelectionChanges(models[shown]))
  \/ DebounceFire
  \/ ChangeModule
  \/ SwapOpened
  \/ SwapThen
  \/ AnimationFrame

SpecSelections == InitSelections /\ [][NextSelections]_vars

\* The same, from the editor in which updateUserSelections and an animation
\* frame have given a peer its cursor at the start of the shown text
InitDecorated ==
  /\ InitShowing(SelectionDocs, {LiveProps},
                 {[id |-> 1, owner |-> "u1", role |-> "cursor",
                   from |-> indexToLineAndColumn(<<"a", "b">>, 0),
                   to |-> indexToLineAndColumn(<<"a", "b">>, 0)]})
  /\ mapper = NotCalled(<<>>)

NextDecorated ==
  \/ UpdateUserSelections(UserSelectionArrays)
  \/ ChangeModule
  \/ SwapOpened
  \/ SwapThen
  \/ AnimationFrame

SpecDecorated == InitDecorated /\ [][NextDecorated]_vars

\* The editor's own selection alone, while modules are switched. The timer of
\* the debounced function expires once its delay has passed, and a promise
\* that is resolved has its then-callback run
NextTyping ==
  \/ SelectionChanged(SelectionChanges(models[shown]))
  \/ DebounceFire
  \/ ChangeModule
  \/ SwapOpened
  \/ SwapThen

\* The step SwapThen as swaps shows it: a swap whose model is open is done
ThenRuns ==
  \E i \in 1..Len(swaps) : swaps[i].stage = "then" /\ swaps' = Remove(swaps, i)

SpecTyping ==
  InitSelections /\ [][NextTyping]_vars /\ WF_vars(DebounceFire) /\ WF_swaps(ThenRuns)

\* The offset mapper on every sequence of lines, getLinesContent() || [], told
\* apart by the lengths of the lines, which is all the mapper reads of them
MapperLines ==
  UNION {[1..k -> UNION {[1..n -> {"a"}] : n \in 0..MaxLineLength}] :
           k \in 0..MaxMapperLines}

InitMapper ==
  /\ InitEditor({ModelOf(<<"a">>, EolLF)}, {LiveProps})
  /\ \E lines \in MapperLines : mapper = NotCalled(lines)

NextMapper == RoundTrip \/ ToLineAndColumn

SpecMapper == InitMapper /\ [][NextMapper]_vars

\* Module switches started by changeCurrentModule, the sequences that change
\* code, edits and the host's setReceivingCode. getModelById resolves in the end (its model is
\* made once the mode is loaded), and a resolved promise has its callback run
NextSwitch ==
  \/ ChangeCurrentModule
  \/ RunSequence
  \/ SwapOpened
  \/ SwapThen
  \/ SetReceivingCode
  \/ LocalEdit(KeyEdits(models[shown]))

SpecSwitch ==
  Init /\ [][NextSwitch]_vars /\ WF_vars(SwapOpened) /\ WF_swaps(ThenRuns)

\* ------------------------------------------------------------------ claims
\* The handler that ran last was a user's edit, translated by sendChangeOperations
Translated == last.kind = "local" /\ props.isLive /\ props.sendTransforms /\ ~last.flag0

\* The operation at hand does not span the text the editor showed
Malformed == last.kind = "remote" /\ last.op.baseLength # Len(last.pre)

InsertSteps(ops) == {i \in 1..Len(ops) : isInsert(ops[i])}
DeleteSteps(ops) == {i \in 1..Len(ops) : isDelete(ops[i])}

RECURSIVE InsertedLength(_, _)
InsertedLength(ops, eol) ==
  IF ops = <<>> THEN 0
  ELSE (IF isInsert(Head(ops)) THEN Len(NormalizeEOL(Head(ops).s, eol)) ELSE 0)
       + InsertedLength(Tail(ops), eol)

\* C1 (as stated; SpecTranslate): the operation sendChangeOperations builds from
\* the changes of an edit s -> s' against the snapshot s is sent, and applied
\* to s it gives s'.
C1_ApplyGivesEditedText ==
  last.kind = "local" =>
    /\ Len(last.out) = 1
    /\ OpApply(last.out[1], last.pre) = [ok |-> TRUE, str |-> last.post]

\* C2 (as stated; SpecApply): for an operation op and a text s of length
\* op.baseLength in the editor, the text after applyOperation(op) is op.apply(s).
C2_BufferEqualsApply ==
  (last.kind = "remote" /\ OpApply(last.op, last.pre).ok) =>
    last.post = OpApply(last.op, last.pre).str

\* C3: a remote operation applied by applyOperation sends nothing, and every
\* content change it makes finds receivingCode true.
C3_EchoSuppressed ==
  last.kind = "remote" => last.out = <<>> /\ last.unguarded = 0

\* C3 witness: a remote operation changed the text of a live editor whose flag
\* was down when the operation arrived.
C3_RemoteChangedText ==
  /\ last.kind = "remote" /\ last.mutations > 0 /\ last.pre # last.post
  /\ props.sendTransforms /\ ~last.flag0

\* C4: the callback of changeModule that loads the new module's code calls
\* sendTransforms for none of the changes it makes.
C4_SwitchSendsNothing ==
  last.kind = "then" => last.out = <<>> /\ last.unguarded = 0

\* C4 witness: the callback replaced the text of the model it switched to, in a
\* live editor.
C4_SwitchReplacedText ==
  /\ last.kind = "then" /\ last.mutations = 1 /\ last.pre # last.post
  /\ props = LiveProps /\ ~last.flag0

C6_MismatchNeverSent ==
  (last.built # <<>> /\ last.built[1].baseLength # Len(last.base)) => last.out = <<>>

\* C6 witness: a user's edit was translated against a snapshot shorter than the
\* operation built from it.
C6_MismatchBuilt ==
  /\ last.kind = "local" /\ last.built # <<>>
  /\ last.built[1].baseLength # Len(last.base)

C8_ApplyIffLength ==
  last.built # <<>> =>
    /\ ~last.threw <=> last.built[1].baseLength = Len(last.base)
    /\ last.threw => last.out = <<>> /\ liveOperationCode = last.base
    /\ ~last.threw => liveOperationCode = OpApply(last.built[1], last.base).str

\* C8 witness: apply failed on a snapshot shorter than baseLength and the
\* snapshot is still in liveOperationCode.
C8_ApplyFailed ==
  /\ last.built # <<>> /\ last.threw
  /\ Len(last.base) < last.built[1].baseLength
  /\ last.base # <<>> /\ liveOperationCode = last.base

C11_SwitchResetsSnapshot == last.kind = "then" => liveOperationCode = <<>>

\* C12 (as stated): once a null selection has arrived for a user, the model
\* that was shown then keeps no decoration of that user, whatever animation
\* frame callbacks run, until a new selection of the user arrives.
C12_NullRemovesDecorations ==
  \A g \in gone : \A d \in decorations[g[1]] : d.owner # g[2]

\* The listener of a live editor that has onSelectionChanged handled last a
\* selection change with a discrete cause
DiscreteChange ==
  /\ last.kind = "cursor"
  /\ props.isLive
  /\ props.onSelectionChanged
  /\ IsDiscrete(last.op)

\* The timer of the debounced function was the last to run, with
\* onSelectionChanged given
DebouncedSend == last.kind = "debounce" /\ props.onSelectionChanged

\* C13: while live, a selection change with a discrete cause passes its payload
\* to onSelectionChanged at once and leaves no debounced call waiting, and what
\* the debounce timer delivers is never older than the latest selection change.
C13_DiscreteSendsAtOnce ==
  /\ DiscreteChange =>
       /\ pendingSelection = <<>>
       /\ delivered = Append(last.delivered0, lastSelection[1])
  /\ DebouncedSend => delivered = Append(last.delivered0, lastSelection[1])

\* C13 witness: a discrete change arrived while a debounced call was waiting
C13_DiscreteCancelledPending ==
  /\ DiscreteChange
  /\ last.pending0 # <<>>
  /\ last.pending0[1] # lastSelection[1]
  /\ pendingSelection = <<>>
  /\ Len(delivered) = Len(last.delivered0) + 1

\* onSelectionChanged has received the payload of the latest selection change
LatestDelivered ==
  /\ delivered # <<>>
  /\ lastSelection # <<>>
  /\ delivered[Len(delivered)] = lastSelection[1]

\* C14: while live with onSelectionChanged given, a payload that waits in the
\* debounce is delivered in the end, and whenever none waits the last payload
\* delivered is that of the latest selection change.
C14_TypedEventuallySent ==
  /\ [](props.isLive /\ props.onSelectionChanged /\ lastSelection # <<>>
          /\ pendingSelection = <<>> => LatestDelivered)
  /\ (props.isLive /\ props.onSelectionChanged /\ pendingSelection # <<>>)
       ~> (pendingSelection = <<>> /\ LatestDelivered)

\* C14 witness: the timer delivered the payload of a typed change, the first
\* payload onSelectionChanged received
C14_TypedDelivered ==
  /\ DebouncedSend
  /\ LatestDelivered
  /\ Len(delivered) = 1
  /\ last.pending0 = lastSelection
  /\ pendingSelection = <<>>

TextLength(lines) == IF lines = <<>> THEN 0 ELSE SumLen(lines) + Len(lines) - 1

\* C16: a position within the text (1 <= line <= number of lines, 1 <= column
\* <= length of the line + 1) taken to its offset by lineAndColumnToIndex and
\* back by indexToLineAndColumn is the same position.
C16_RoundTrip ==
  mapper.call = "roundTrip" =>
    mapper.result = [lineNumber |-> mapper.lineNumber, column |-> mapper.column]

\* C16 witness: the first column of the last of three lines went round
C16_ThirdLineRoundTrip ==
  /\ mapper.call = "roundTrip"
  /\ Len(mapper.lines) = MaxMapperLines
  /\ mapper.lineNumber = MaxMapperLines
  /\ mapper.column = 1
  /\ mapper.index = TextLength(mapper.lines) - Len(mapper.lines[MaxMapperLines])
  /\ mapper.result = [lineNumber |-> MaxMapperLines, column |-> 1]

\* C17: for an offset greater than the length of the text indexToLineAndColumn
\* returns a position and no error: the last line (line number lines.length)
\* and the column after its last character.
C17_ClampsToEnd ==
  (mapper.call = "indexToLineAndColumn" /\ mapper.index > TextLength(mapper.lines)) =>
    /\ mapper.result.lineNumber = Len(mapper.lines)
    /\ mapper.result.column =
         (IF mapper.lines = <<>> THEN 0 ELSE Len(mapper.lines[Len(mapper.lines)])) + 1

\* C17 witness: an offset two past the end of a text of two lines was clamped
C17_ClampedPastEnd ==
  /\ mapper.call = "indexToLineAndColumn"
  /\ Len(mapper.lines) = 2
  /\ mapper.index = TextLength(mapper.lines) + MaxBeyond
  /\ mapper.result = [lineNumber |-> 2, column |-> Len(mapper.lines[2]) + 1]

\* The text with every line break written as one character, as the offset
\* mapper counts it
Flat(text) == ReplaceCRLF(text)

\* The text without the characters at the offsets from..to - 1 that it has
Without(text, from, to) ==
  Slice(text, 0, Min(Max(from, 0), Len(text))) \o Slice(text, Min(to, Len(text)), Len(text))

\* The offset the steps before step i retain
RetainedBefore(ops, i) == IF i > 1 /\ isRetain(ops[1]) THEN ops[1].n ELSE 0

\* A remote operation with one delete step, at step i, and no insert step
DeletesOnce(i) ==
  /\ last.kind = "remote"
  /\ InsertSteps(last.op.ops) = {}
  /\ DeleteSteps(last.op.ops) = {i}
  /\ i <= 2

\* A remote operation that deletes at the start, retains and then inserts
DeletesThenInserts ==
  /\ last.kind = "remote"
  /\ Len(last.op.ops) = 3
  /\ isDelete(last.op.ops[1]) /\ isRetain(last.op.ops[2]) /\ isInsert(last.op.ops[3])

\* C18 (as stated; SpecApply): a delete step of n characters with the cursor at
\* offset c removes the characters at the offsets c - n .. c - 1.
C18_DeleteEndsAtCursor ==
  \A i \in 1..2 :
    DeletesOnce(i) =>
      Flat(last.post) =
        Without(Flat(last.pre), RetainedBefore(last.op.ops, i) + last.op.ops[i].n,
                RetainedBefore(last.op.ops, i))

\* C18 (amended; SpecApply): a delete step of n characters with the cursor at
\* offset c removes the characters at the offsets c .. c + n - 1 that the text
\* has, and the cursor stays at c: a retain of r and an insert after a delete
\* at the start put the text at offset r of what is left.
C18_DeleteStartsAtCursor ==
  /\ \A i \in 1..2 :
       DeletesOnce(i) =>
         Flat(last.post) =
           Without(Flat(last.pre), RetainedBefore(last.op.ops, i),
                   RetainedBefore(last.op.ops, i) - last.op.ops[i].n)
  /\ DeletesThenInserts =>
       Flat(last.post) =
         Slice(Without(Flat(last.pre), 0, 0 - last.op.ops[1].n), 0,
               Min(last.op.ops[2].n, Len(Without(Flat(last.pre), 0, 0 - last.op.ops[1].n))))
         \o Flat(last.op.ops[3].s)
         \o Slice(Without(Flat(last.pre), 0, 0 - last.op.ops[1].n),
                  Min(last.op.ops[2].n, Len(Without(Flat(last.pre), 0, 0 - last.op.ops[1].n))),
                  Len(Without(Flat(last.pre), 0, 0 - last.op.ops[1].n)))

\* C18 witness: a delete step after a retain removed the character after the
\* cursor and left the one before it
C18_DeletedAfterCursor ==
  /\ DeletesOnce(2)
  /\ last.op.ops[1].n = 1 /\ last.op.ops[2].n = 0 - 1
  /\ Len(last.pre) = 3
  /\ last.post = <<last.pre[1], last.pre[3]>>

\* C19 (as stated): the snapshot a user's edit is translated against is the
\* text the editor showed before the edit.
C19_SnapshotIsTextBefore ==
  (Translated /\ last.built # <<>>) => last.base = last.pre

\* Two or more edits of the user, and nothing else, have been handled since the
\* last animation frame, and each was translated and sent
SeveralEditsInFrame ==
  /\ last.kind = "local"
  /\ frameEdits >= 2
  /\ frameSends = frameEdits
  /\ frameText.local

\* C20 (as stated): after several edits of one frame, each later edit was
\* translated against the snapshot the edit before it left, and the operations
\* sent, applied in order to the text the frame started with, give the text
\* the editor shows.
C20_FrameOperationsCompose ==
  SeveralEditsInFrame =>
    /\ last.base = last.live0
    /\ frameText.applied
    /\ frameText.text = getValue(models[shown])

\* C21: every operation sendChangeOperations passes to sendTransforms has the
\* length of the snapshot it was built against as baseLength and the length of
\* the snapshot stored afterwards as targetLength.
C21_SentLengthsMatch ==
  (Translated /\ last.out # <<>>) =>
    /\ last.out[1].baseLength = Len(last.base)
    /\ last.out[1].targetLength = Len(liveOperationCode)

\* C21 witness: an operation that makes a snapshot of two or more characters
\* shorter or longer was sent
C21_SentChangedLength ==
  /\ Translated /\ Len(last.out) = 1
  /\ Len(last.base) >= 2
  /\ last.out[1].targetLength # last.out[1].baseLength
  /\ liveOperationCode # last.base

\* C22: the animation frame after an operation was sent empties
\* liveOperationCode, and the first edit translated after that frame is built
\* against the code of the current module.
C22_FlushClearsSnapshot ==
  /\ (last.kind = "frame" /\ last.sends0 > 0) => liveOperationCode = <<>>
  /\ (Translated /\ last.afterFlush) => last.live0 = <<>> /\ last.base = last.code0

\* C22 witness: an edit was sent, the frame passed, and the next edit was built
\* against the module's code, which the first edit had changed
C22_FlushedThenEdited ==
  /\ Translated /\ last.afterFlush
  /\ Len(last.out) = 1
  /\ last.base = last.code0
  /\ last.base = last.pre
  /\ last.base # <<>>

\* C23: when a remote operation has been applied liveOperationCode is empty,
\* whatever snapshot was in progress when it arrived, and an edit translated
\* with no snapshot in progress is built against the code of the current module.
C23_RemoteDiscardsSnapshot ==
  /\ last.kind = "remote" => liveOperationCode = <<>>
  /\ (Translated /\ last.live0 = <<>>) => last.base = last.code0

\* C23 witness: a remote operation changed the text while a snapshot of a
\* user's edit was in progress
C23_SnapshotDiscarded ==
  /\ last.kind = "remote"
  /\ last.live0 # <<>>
  /\ last.pre # last.post
  /\ liveOperationCode = <<>>

CodeSequences == {"discardModuleChanges", "addNpmDependency", "removeNpmDependency"}

\* The places of a step among the steps that ran
Places(steps) == {i \in 1..Len(ran) : ran[i].step \in steps}

DecorateTasks(userId) ==
  {i \in 1..Len(last.queue0) :
     last.queue0[i].task = "decorate" /\ last.queue0[i].userId = userId}

\* The newest of them
NewestTask(userId) ==
  last.queue0[CHOOSE i \in DecorateTasks(userId) : \A j \in DecorateTasks(userId) : j <= i]

\* The decorations a user has in the model that is shown
DecorationsShown(userId) == {d \in decorations[shown] : d.owner = userId}

\* A user's newest selection was applied by the frame that ran last
SelectionApplied(userId) ==
  /\ last.kind = "frame"
  /\ DecorateTasks(userId) # {}
  /\ \A g \in gone : g[2] # userId

\* C25 (as stated): once the animation frame has applied a user's newest
\* selection, the decorations of that user in the shown model are exactly those
\* the payload describes, and none of the user's earlier decorations remain.
C25_DecorationsReplaced ==
  \A userId \in Users :
    SelectionApplied(userId) =>
      /\ {[owner |-> d.owner, role |-> d.role, from |-> d.from, to |-> d.to] :
            d \in DecorationsShown(userId)}
           = {NewestTask(userId).decorations[i] :
                i \in 1..Len(NewestTask(userId).decorations)}
      /\ Cardinality(DecorationsShown(userId)) = Len(NewestTask(userId).decorations)

\* C26 (as stated): when no swap of changeModule is pending any more, the
\* editor shows the model of the module requested last (this.currentModule).
C26_ShowsCurrentModule == swaps = <<>> => shown = currentModule

\* The callback of a changeModule call that a later call superseded ran last
SupersededThen == last.kind = "then" /\ last.op.next # currentModule

\* C27: the callback of a superseded changeModule call writes nothing into the
\* buffer: the text of the shown model is what it was, and a callback that
\* changed the text belongs to the module that is current.
C27_SupersededWritesNothing ==
  /\ SupersededThen => last.post = last.pre /\ last.mutations = 0
  /\ (last.kind = "then" /\ last.post # last.pre) =>
       last.op.next = currentModule /\ last.post = getValue(ModelOf(code[currentModule], models[shown].eol))

\* C27 witness: the superseded call's module has code that differs from the
\* shown text, and its callback left the text alone
C27_SupersededSkipped ==
  /\ SupersededThen
  /\ code[last.op.next] # last.pre
  /\ ReplaceCRLF(code[last.op.next]) # ReplaceCRLF(last.pre)
  /\ last.post = last.pre

\* C28 (as stated): a receiving flag the host set stays set until the host
\* calls setReceivingCode(false): no other handler finds it set and leaves it
\* down.
\* down. The host's calls are setReceivingCode and the handler of a remote
\* operation, which ends with setReceivingCode(false).
C28_HostFlagStays ==
  (last.flag0 /\ last.kind \notin {"flag", "remote"}) => receivingCode

\* C29 (as stated): a handler's content-change events that find isLive,
\* sendTransforms and the flag down lead to one sendTransforms call each, the
\* other events to none.
C29_OneSendPerEvent ==
  Len(last.out) = (IF props.isLive /\ props.sendTransforms THEN last.unguarded ELSE 0)

============================================================================
